---- MODULE Spec2Model ----
(***************************************************************************)
(* Model of bank_statement_automator.py: the OFX document builder          *)
(* generate_ofx, the transaction fetch that feeds it, and the stage        *)
(* sequence of main.                                                       *)
(*                                                                         *)
(* Text is a sequence of tokens.  A token is one character ("a", "-",      *)
(* "7"), the line break NL, or one OFX tag ("<STMTTRN>") taken as a unit.  *)
(* A tag carried inside an input text is the same token as the tag the     *)
(* builder writes: the builder copies input text without escaping.         *)
(***************************************************************************)
EXTENDS Integers, Sequences, FiniteSets

VARIABLES
    start_date,     \* args.inicio
    end_date,       \* args.fim
    transactions,   \* value returned by fetch_transactions
    saldo,          \* value returned by fetch_balance
    today,          \* the system clock's date, as a day index
    ofx,            \* outcome of the (first) call of generate_ofx
    ofx2,           \* outcome of a second call with the same arguments
    pc,             \* position of the running program
    token,          \* value returned by get_bank_token
    pdf_content,    \* value returned by fetch_pdf
    attempted,      \* stages of main entered so far, in order
    succeeded,      \* stages of main that returned normally
    files,          \* paths written by save_file
    uploaded,       \* paths uploaded by upload_to_drive
    emailed         \* attachments of the email sent, <<>> while none is sent

vars == <<start_date, end_date, transactions, saldo, today, ofx, ofx2, pc,
          token, pdf_content, attempted, succeeded, files, uploaded, emailed>>

-----------------------------------------------------------------------------
(* Bounds *)

MaxTx == 2
NumUuid == 2
MainMaxTx == 1

-----------------------------------------------------------------------------
(* Python values *)

NL == "\n"

Absent == [t |-> "absent"]
PyNone == [t |-> "None"]
PyStr(s) == [t |-> "str", s |-> s]
PyInt(n) == [t |-> "int", n |-> n]
PyList(items) == [t |-> "list", items |-> items]

\* A transaction record: a dict whose four keys may each be absent.
Tr(tp, d, v, m) ==
    [t |-> "dict", tipoOperacao |-> tp, dataEntrada |-> d, valor |-> v,
     descricao |-> m]

\* A balance response: a dict whose key "disponivel" may be absent.
Saldo(v) == [t |-> "dict", disponivel |-> v]

\* A response body of the transaction endpoint: a dict whose key
\* "transacoes" may be absent, with its other keys in iteration order.
Body(trs, others) == [t |-> "dict", transacoes |-> trs, others |-> others]

\* dict.get(key, default)
Get(d, key, default) == IF d[key] = Absent THEN default ELSE d[key]

DigitChars == <<"0", "1", "2", "3", "4", "5", "6", "7", "8", "9",
                "a", "b", "c", "d", "e", "f">>

RECURSIVE Digits(_, _)
Digits(n, base) ==
    IF n < base THEN <<DigitChars[n + 1]>>
    ELSE Digits(n \div base, base) \o <<DigitChars[(n % base) + 1]>>

\* s.zfill(width), as %Y, %m, %d and .hex pad their numbers
ZeroPad(s, width) ==
    IF Len(s) >= width THEN s ELSE [i \in 1..(width - Len(s)) |-> "0"] \o s

\* str(n) of an int
IntToStr(n) == IF n < 0 THEN <<"-">> \o Digits(-n, 10) ELSE Digits(n, 10)

\* What an f-string writes for {v}
Format(v) ==
    CASE v.t = "str" -> v.s
      [] v.t = "int" -> IntToStr(v.n)
      [] v.t = "None" -> <<"N", "o", "n", "e">>

KeepDashes(s) == s

\* s.replace("-", "")
StripDashes(s) == SelectSeq(s, LAMBDA c : c # "-")

\* date.today().strftime("%Y%m%d"); day index k is the k-th day after
\* 2024-03-30, so that index 1 and index 2 lie on either side of a
\* month's end.
DateOf(k) == IF k < 2 THEN [year |-> 2024, month |-> 3, day |-> 30 + k]
             ELSE [year |-> 2024, month |-> 4, day |-> k - 1]

strftime(k) ==
    ZeroPad(Digits(DateOf(k).year, 10), 4)
    \o ZeroPad(Digits(DateOf(k).month, 10), 2)
    \o ZeroPad(Digits(DateOf(k).day, 10), 2)

UuidHexLen == 32

\* The characters of s as one token
RECURSIVE Glue(_)
Glue(s) == IF s = <<>> THEN "" ELSE Head(s) \o Glue(Tail(s))

\* uuid4().hex of the uuid whose integer value is u: 32 hexadecimal digits,
\* kept as one token
UuidHex(u) == <<Glue(ZeroPad(Digits(u, 16), UuidHexLen))>>

\* "\n".join(lines)
RECURSIVE Join(_)
Join(lines) ==
    IF lines = <<>> THEN <<>>
    ELSE IF Len(lines) = 1 THEN lines[1]
    ELSE lines[1] \o <<NL>> \o Join(Tail(lines))

-----------------------------------------------------------------------------
(* generate_ofx *)

Elem(tag, text) == <<"<" \o tag \o ">">> \o text \o <<"</" \o tag \o ">">>
Open(tag) == <<"<" \o tag \o ">">>
\* the closing tag written without its slash
CloseWithoutSlash(tag) == <<"<" \o tag \o ">">>
Close(tag) == <<"</" \o tag \o ">">>
Plain(s) == <<s>>

\* lines 100-144; d1 is what date.today() returns at line 118
HeaderLines(start, end, d1) ==
    << Plain("OFXHEADER:100"), Plain("DATA:OFXSGML"), Plain("VERSION:102"),
       Plain("SECURITY:NONE"), Plain("ENCODING:USASCII"), Plain("CHARSET:1252"),
       Plain("COMPRESSION:NONE"), Plain("OLDFILEUID:NONE"),
       Plain("NEWFILEUID:NONE"), <<>>,
       Open("OFX"), Open("SIGNONMSGSRSV1"), Open("SONRS"), Open("STATUS"),
       Elem("CODE", <<"0">>), Elem("SEVERITY", Plain("INFO")), Close("STATUS"),
       Elem("DTSERVER", strftime(d1)),
       Elem("LANGUAGE", Plain("POR")),
       Open("FI"), Elem("ORG", Plain("Banco Intermedium S/A")),
       Elem("FID", <<"0", "7", "7">>), Close("FI"),
       Close("SONRS"), Close("SIGNONMSGSRSV1"),
       Open("BANKMSGSRSV1"), Open("STMTTRNRS"),
       Elem("TRNUID", <<"1", "0", "0", "1">>),
       Open("STATUS"), Elem("CODE", <<"0">>), Elem("SEVERITY", Plain("INFO")),
       Close("STATUS"),
       Open("STMTRS"), Elem("CURDEF", Plain("BRL")),
       Open("BANKACCTFROM"), Elem("BANKID", <<"0", "7", "7">>),
       Elem("BRANCHID", Plain("0001-9")), Elem("ACCTID", Plain("94401993")),
       Elem("ACCTTYPE", Plain("CHECKING")), Close("BANKACCTFROM"),
       Open("BANKTRANLIST"),
       Elem("DTSTART", StripDashes(start)),
       Elem("DTEND", StripDashes(end)) >>

\* line 147
Tipo(tr) ==
    IF Get(tr, "tipoOperacao", PyNone) = PyStr(<<"C">>) THEN "CREDIT" ELSE "PAYMENT"

SignPrefixAlways(tipo) == <<"-">>

\* line 155: the sign written before the amount
SignPrefix(tipo) == IF tipo = "PAYMENT" THEN <<"-">> ELSE <<>>

\* lines 147-150 raise for an element that has no .get (iterating a dict
\* yields its keys, which are strings) and for a dataEntrada that has no
\* .replace (anything but a string).
TrRaises(tr) ==
    \/ tr.t # "dict"
    \/ Get(tr, "dataEntrada", PyStr(<<>>)).t # "str"

\* the uuid written a second time, as the reference number
TrLinesUuidAsRefnum(tr, u) ==
    LET tipo == Tipo(tr)
        dt == StripDashes(Get(tr, "dataEntrada", PyStr(<<>>)).s)
        valor == Get(tr, "valor", PyInt(0))
        desc == Get(tr, "descricao", PyStr(<<>>))
    IN << Open("STMTTRN"),
          Elem("TRNTYPE", Plain(tipo)),
          Elem("DTPOSTED", dt),
          Elem("TRNAMT", SignPrefix(tipo) \o Format(valor)),
          Elem("FITID", UuidHex(u)),
          Elem("CHECKNUM", <<"0", "7", "7">>),
          Elem("REFNUM", UuidHex(u)),
          Elem("MEMO", Format(desc)),
          Close("STMTTRN") >>

\* lines 147-161 for one transaction; u is what uuid4() returns
TrLines(tr, u) ==
    LET tipo == Tipo(tr)
        dt == StripDashes(Get(tr, "dataEntrada", PyStr(<<>>)).s)
        valor == Get(tr, "valor", PyInt(0))
        desc == Get(tr, "descricao", PyStr(<<>>))
    IN << Open("STMTTRN"),
          Elem("TRNTYPE", Plain(tipo)),
          Elem("DTPOSTED", dt),
          Elem("TRNAMT", SignPrefix(tipo) \o Format(valor)),
          Elem("FITID", UuidHex(u)),
          Elem("CHECKNUM", <<"0", "7", "7">>),
          Elem("REFNUM", <<"0", "7", "7">>),
          Elem("MEMO", Format(desc)),
          Close("STMTTRN") >>

\* the ledger block left open
FooterLinesUnclosedLedger(sal, d2) ==
    << Close("BANKTRANLIST"),
       Open("LEDGERBAL"),
       Elem("BALAMT", Format(Get(sal, "disponivel", PyNone))),
       Elem("DTASOF", strftime(d2)),
       Close("STMTRS"), Close("STMTTRNRS"), Close("BANKMSGSRSV1"),
       Close("OFX") >>

\* lines 163-173; d2 is what date.today() returns at line 167
FooterLines(sal, d2) ==
    << Close("BANKTRANLIST"),
       Open("LEDGERBAL"),
       Elem("BALAMT", Format(Get(sal, "disponivel", PyNone))),
       Elem("DTASOF", strftime(d2)),
       Close("LEDGERBAL"),
       Close("STMTRS"), Close("STMTTRNRS"), Close("BANKMSGSRSV1"),
       Close("OFX") >>

\* What "for tr in transactions" iterates over: the items of a list, the
\* keys of a dict.
Iterable(trs) == trs.t \in {"list", "dict"}

\* the loop stops one element early
ElementsButLast(trs) ==
    IF trs.t = "list" THEN SubSeq(trs.items, 1, Len(trs.items) - 1)
    ELSE [i \in 1..Len(trs.others) |-> PyStr(trs.others[i])]

Elements(trs) ==
    IF trs.t = "list" THEN trs.items
    ELSE [i \in 1..Len(trs.others) |-> PyStr(trs.others[i])]

RECURSIVE Flatten(_)
Flatten(ss) == IF ss = <<>> THEN <<>> ELSE Head(ss) \o Flatten(Tail(ss))

\* The call ended in an exception: nothing is returned.
Raised == [raised |-> TRUE, content |-> <<>>]

\* generate_ofx(transactions, saldo, start_date, end_date) with the values
\* its environment hands it: d1 and d2 are the two readings of the clock,
\* uuids[k] the k-th result of uuid4().  Every token written is ASCII text,
\* which .encode("utf-8") turns into the same characters, one byte each.
generate_ofx(trs, sal, start, end, d1, d2, uuids) ==
    IF ~Iterable(trs) THEN Raised
    ELSE LET elems == Elements(trs)
         IN IF \E k \in 1..Len(elems) : TrRaises(elems[k]) THEN Raised
            ELSE [raised |-> FALSE,
                  content |->
                      Join(HeaderLines(start, end, d1)
                           \o Flatten([k \in 1..Len(elems) |->
                                          TrLines(elems[k], uuids[k])])
                           \o FooterLines(sal, d2))]

-----------------------------------------------------------------------------
(* fetch_transactions *)

\* lines 73-76: data.get("transacoes", data)
fetch_transactions(data) == Get(data, "transacoes", data)

-----------------------------------------------------------------------------
(* Inputs *)

Date0301 == <<"2", "0", "2", "4", "-", "0", "3", "-", "0", "1">>
Date0331 == <<"2", "0", "2", "4", "-", "0", "3", "-", "3", "1">>

\* --inicio / --fim: the range's two ends, which may be the same day
DateArgs == {<<Date0301, Date0331>>, <<Date0301, Date0301>>}

MemoPlain == <<"D", "e", "p">>
\* a memo that carries tag text on its one line
MemoInline == <<"<STMTTRN>", "<DTSTART>", "x", "</DTSTART>">>
\* a memo that carries line breaks and tag text
MemoLines == <<"x", NL, "</BANKTRANLIST>", NL, "<LEDGERBAL>">>

\* Records of the feed
TrCredit == Tr(PyStr(<<"C">>), PyStr(Date0301), PyInt(150), PyStr(MemoPlain))
TrCreditNegative == Tr(PyStr(<<"C">>), PyStr(Date0301), PyInt(-5), PyStr(MemoPlain))
TrDebit == Tr(PyStr(<<"D">>), PyStr(Date0301), PyInt(150), PyStr(MemoPlain))
TrNoCode == Tr(Absent, PyStr(Date0301), PyInt(-5), PyStr(MemoPlain))
\* {}: every key is missing
TrEmpty == Tr(Absent, Absent, Absent, Absent)
\* "dataEntrada": null
TrNullDate == Tr(PyStr(<<"C">>), PyNone, PyInt(150), PyStr(MemoPlain))
TrTagMemo == Tr(PyStr(<<"C">>), PyStr(Date0301), PyInt(150), PyStr(MemoInline))
TrLinesMemo == Tr(PyStr(<<"C">>), PyStr(Date0301), PyInt(150), PyStr(MemoLines))

TrPool ==
    {TrCredit, TrCreditNegative, TrDebit, TrNoCode, TrEmpty, TrNullDate,
     TrTagMemo, TrLinesMemo}

SeqsUpTo(S, n) == UNION {[1..k -> S] : k \in 0..n}

\* Response bodies of the transaction endpoint: with a list under
\* "transacoes", with null under it, and without the key (an empty object,
\* an object with another key).
Bodies(pool, n) ==
    {Body(PyList(s), <<>>) : s \in SeqsUpTo(pool, n)}
    \cup {Body(PyNone, <<>>), Body(Absent, <<>>), Body(Absent, <<Plain("title")>>)}

SaldoVals == {Saldo(Absent), Saldo(PyInt(500))}

Uuids == 1..NumUuid

-----------------------------------------------------------------------------
(* State *)

NoRun == [called |-> FALSE, raised |-> FALSE, content |-> <<>>, clock |-> <<>>]

\* Number of times one call of generate_ofx reaches uuid4()
UuidCalls(trs) ==
    IF ~Iterable(trs) THEN 0
    ELSE IF \E k \in 1..Len(Elements(trs)) : TrRaises(Elements(trs)[k]) THEN 0
    ELSE Len(Elements(trs))

\* One call of generate_ofx on the arguments in the state.  The clock may
\* pass midnight between the reading at line 118 and the one at line 167.
Call(d2, uuids) ==
    LET r == generate_ofx(transactions, saldo, start_date, end_date,
                          today, d2, uuids)
    IN [called |-> TRUE, raised |-> r.raised, content |-> r.content,
        clock |-> <<today, d2>>]

\* A local of main that is not assigned yet
Unset == [t |-> "unset"]

MainIdle ==
    /\ token = Unset
    /\ pdf_content = Unset
    /\ attempted = <<>>
    /\ succeeded = {}
    /\ files = <<>>
    /\ uploaded = <<>>
    /\ emailed = <<>>

Init ==
    /\ \E a \in DateArgs : start_date = a[1] /\ end_date = a[2]
    /\ transactions \in {fetch_transactions(b) : b \in Bodies(TrPool, MaxTx)}
    /\ saldo \in SaldoVals
    /\ today = 0
    /\ ofx = NoRun
    /\ ofx2 = NoRun
    /\ pc = "generate"
    /\ MainIdle

Generate ==
    /\ pc = "generate"
    /\ \E d2 \in {today, today + 1}, uuids \in [1..UuidCalls(transactions) -> Uuids] :
          /\ ofx' = Call(d2, uuids)
          /\ today' = d2
    /\ pc' = "generated"
    /\ UNCHANGED <<start_date, end_date, transactions, saldo, ofx2, token,
                   pdf_content, attempted, succeeded, files, uploaded, emailed>>

GenerateAgain ==
    /\ pc = "generated"
    /\ \E d2 \in {today, today + 1}, uuids \in [1..UuidCalls(transactions) -> Uuids] :
          /\ ofx2' = Call(d2, uuids)
          /\ today' = d2
    /\ pc' = "generated twice"
    /\ UNCHANGED <<start_date, end_date, transactions, saldo, ofx, token,
                   pdf_content, attempted, succeeded, files, uploaded, emailed>>

Next == Generate

Spec == Init /\ [][Next]_vars

\* Two calls in a row with the same arguments: lists of a plain record and of
\* a record without any key, for one date range.
InitTwice ==
    /\ start_date = Date0301
    /\ end_date = Date0331
    /\ transactions \in {PyList(s) : s \in SeqsUpTo({TrCredit, TrEmpty}, MaxTx)}
    /\ saldo \in SaldoVals
    /\ today = 0
    /\ ofx = NoRun
    /\ ofx2 = NoRun
    /\ pc = "generate"
    /\ MainIdle

NextTwice == Generate \/ GenerateAgain

SpecTwice == InitTwice /\ [][NextTwice]_vars

-----------------------------------------------------------------------------
(* main *)

Stages ==
    <<"get_bank_token", "fetch_pdf", "fetch_transactions", "fetch_balance",
      "generate_ofx", "save_pdf", "save_ofx", "upload_pdf", "upload_ofx",
      "send_email">>

InitMain ==
    /\ start_date = Unset
    /\ end_date = Unset
    /\ transactions = Unset
    /\ saldo = Unset
    /\ today = 0
    /\ ofx = NoRun
    /\ ofx2 = NoRun
    /\ pc = "main"
    /\ MainIdle

\* A stage is entered, and then returns or raises; an exception leaves main.
Enter(stage) == pc = stage /\ attempted' = Append(attempted, stage)
Return(stage, next) == succeeded' = succeeded \cup {stage} /\ pc' = next
Raise == pc' = "failed" /\ UNCHANGED succeeded

\* HTTP statuses: raise_for_status raises for the second
HttpStatus == {200, 401}

\* lines 289-299: the arguments, the output directory, the credentials file
Setup ==
    /\ pc = "main"
    /\ \/ /\ \E a \in DateArgs : start_date' = a[1] /\ end_date' = a[2]
          /\ pc' = "get_bank_token"
       \/ /\ pc' = "failed"
          /\ UNCHANGED <<start_date, end_date>>
    /\ UNCHANGED <<transactions, saldo, today, ofx, ofx2, token, pdf_content,
                   attempted, succeeded, files, uploaded, emailed>>

\* line 300, lines 241-261
GetBankToken ==
    /\ Enter("get_bank_token")
    /\ \E status \in HttpStatus, tok \in {PyNone, PyStr(<<>>), PyStr(<<"t">>)} :
          IF status = 200 /\ tok.t = "str" /\ tok.s # <<>>
          THEN token' = tok /\ Return("get_bank_token", "fetch_pdf")
          ELSE Raise /\ UNCHANGED token
    /\ UNCHANGED <<start_date, end_date, transactions, saldo, today, ofx, ofx2,
                   pdf_content, files, uploaded, emailed>>

\* line 301, lines 33-54: the decoded "pdf" field, or the raw response
FetchPdf ==
    /\ Enter("fetch_pdf")
    /\ \E status \in HttpStatus, pdf \in {Absent, PyStr(<<"b64">>)} :
          IF status = 200
          THEN /\ pdf_content' = IF pdf = Absent THEN <<"raw">> ELSE <<"decoded">>
               /\ Return("fetch_pdf", "fetch_transactions")
          ELSE Raise /\ UNCHANGED pdf_content
    /\ UNCHANGED <<start_date, end_date, transactions, saldo, today, ofx, ofx2,
                   token, files, uploaded, emailed>>

\* line 302, lines 57-76; a body that is no object has no .get
FetchTransactions ==
    /\ Enter("fetch_transactions")
    /\ \E status \in HttpStatus, data \in Bodies(TrPool, MainMaxTx) \cup {PyList(<<>>)} :
          IF status = 200 /\ data.t = "dict"
          THEN /\ transactions' = fetch_transactions(data)
               /\ Return("fetch_transactions", "fetch_balance")
          ELSE Raise /\ UNCHANGED transactions
    /\ UNCHANGED <<start_date, end_date, saldo, today, ofx, ofx2, token,
                   pdf_content, files, uploaded, emailed>>

\* the failed request is passed over, and main goes on with an empty balance
FetchBalanceSwallowed ==
    /\ Enter("fetch_balance")
    /\ \E status \in HttpStatus, data \in SaldoVals :
          IF status = 200
          THEN saldo' = data /\ Return("fetch_balance", "generate_ofx")
          ELSE /\ saldo' = Saldo(Absent)
               /\ pc' = "generate_ofx"
               /\ UNCHANGED succeeded
    /\ UNCHANGED <<start_date, end_date, transactions, today, ofx, ofx2, token,
                   pdf_content, files, uploaded, emailed>>

\* line 303, lines 79-95
FetchBalance ==
    /\ Enter("fetch_balance")
    /\ \E status \in HttpStatus, data \in SaldoVals :
          IF status = 200
          THEN saldo' = data /\ Return("fetch_balance", "generate_ofx")
          ELSE Raise /\ UNCHANGED saldo
    /\ UNCHANGED <<start_date, end_date, transactions, today, ofx, ofx2, token,
                   pdf_content, files, uploaded, emailed>>

\* line 304
GenerateOfx ==
    /\ Enter("generate_ofx")
    /\ \E d2 \in {today, today + 1}, uuids \in [1..UuidCalls(transactions) -> Uuids] :
          /\ ofx' = Call(d2, uuids)
          /\ today' = d2
    /\ IF ofx'.raised THEN Raise ELSE Return("generate_ofx", "save_pdf")
    /\ UNCHANGED <<start_date, end_date, transactions, saldo, ofx2, token,
                   pdf_content, files, uploaded, emailed>>

\* lines 178-181; open() raises when the path cannot be written
save_file(stage, next, content, path) ==
    /\ Enter(stage)
    /\ \/ files' = Append(files, [path |-> path, content |-> content])
          /\ Return(stage, next)
       \/ Raise /\ UNCHANGED files
    /\ UNCHANGED <<start_date, end_date, transactions, saldo, today, ofx, ofx2,
                   token, pdf_content, uploaded, emailed>>

\* line 306
SavePdf == save_file("save_pdf", "save_ofx", pdf_content, "pdf_path")

\* line 307
SaveOfx == save_file("save_ofx", "upload_pdf", ofx.content, "ofx_path")

\* lines 187-213; raises without pydrive2 and when the upload fails
upload_to_drive(stage, next, path) ==
    /\ Enter(stage)
    /\ \/ uploaded' = Append(uploaded, path) /\ Return(stage, next)
       \/ Raise /\ UNCHANGED uploaded
    /\ UNCHANGED <<start_date, end_date, transactions, saldo, today, ofx, ofx2,
                   token, pdf_content, files, emailed>>

\* line 309
UploadPdf == upload_to_drive("upload_pdf", "upload_ofx", "pdf_path")

\* line 310
UploadOfx == upload_to_drive("upload_ofx", "send_email", "ofx_path")

\* lines 312-314, 216-238; raises without sendgrid and when sending fails
SendEmail ==
    /\ Enter("send_email")
    /\ \/ emailed' = <<"pdf_path", "ofx_path">> /\ Return("send_email", "done")
       \/ Raise /\ UNCHANGED emailed
    /\ UNCHANGED <<start_date, end_date, transactions, saldo, today, ofx, ofx2,
                   token, pdf_content, files, uploaded>>

NextMain ==
    \/ Setup
    \/ GetBankToken
    \/ FetchPdf
    \/ FetchTransactions
    \/ FetchBalance
    \/ GenerateOfx
    \/ SavePdf
    \/ SaveOfx
    \/ UploadPdf
    \/ UploadOfx
    \/ SendEmail

SpecMain == InitMain /\ [][NextMain]_vars

-----------------------------------------------------------------------------
(* Reading a document back *)

\* The lines of a text: its pieces between line breaks.
LinesOf(doc) ==
    LET nl == SelectSeq([i \in 1..Len(doc) |-> i], LAMBDA i : doc[i] = NL)
    IN [k \in 1..(Len(nl) + 1) |->
           SubSeq(doc,
                  IF k = 1 THEN 1 ELSE nl[k - 1] + 1,
                  IF k = Len(nl) + 1 THEN Len(doc) ELSE nl[k] - 1)]

CountTok(doc, tok) == Len(SelectSeq(doc, LAMBDA x : x = tok))

\* Number of places of text doc where text pat starts
Occurrences(doc, pat) ==
    Cardinality({i \in 1..(Len(doc) - Len(pat) + 1) :
                    SubSeq(doc, i, i + Len(pat) - 1) = pat})

IsElem(line, tag) ==
    /\ Len(line) >= 2
    /\ line[1] = "<" \o tag \o ">"
    /\ line[Len(line)] = "</" \o tag \o ">"

Content(line) == SubSeq(line, 2, Len(line) - 1)

\* Indexes of the lines that satisfy Test, in increasing order
Where(ls, Test(_)) == SelectSeq([i \in 1..Len(ls) |-> i], LAMBDA i : Test(ls[i]))

Missing == <<"(no such element)">>

\* The value of the first <tag> element among lines from..to of ls
FieldOf(ls, from, to, tag) ==
    LET hits == {i \in from..to : IsElem(ls[i], tag)}
    IN IF hits = {} THEN Missing
       ELSE Content(ls[CHOOSE i \in hits : \A j \in hits : i <= j])

\* The values of all <tag> elements of a document, in order
ValuesOf(doc, tag) ==
    LET ls == LinesOf(doc)
        at == Where(ls, LAMBDA l : IsElem(l, tag))
    IN [k \in 1..Len(at) |-> Content(ls[at[k]])]

\* The k-th transaction block: from the k-th "<STMTTRN>" line to the line
\* before the next one (or the last line)
BlockStarts(ls) == Where(ls, LAMBDA l : l = <<"<STMTTRN>">>)
BlockFieldAt(ls, at, k, tag) ==
    FieldOf(ls, at[k], IF k < Len(at) THEN at[k + 1] - 1 ELSE Len(ls), tag)
BlockField(ls, k, tag) == BlockFieldAt(ls, BlockStarts(ls), k, tag)

\* A text without markup: single characters, none of them a line break or
\* an angle bracket
Markup == {NL, "<", ">"}
IsPlainText(s) == \A i \in 1..Len(s) : Len(s[i]) = 1 /\ s[i] \notin Markup

Returned(run) == run.called /\ ~run.raised

\* The records handed to the call: the items of the list (a value that is no
\* list holds no record)
Input == IF transactions.t = "list" THEN transactions.items ELSE <<>>
NumInput == Len(Input)

\* Every text the records carry is plain text
PlainMemos ==
    \A k \in 1..NumInput :
        Input[k].descricao.t = "str" => IsPlainText(Input[k].descricao.s)

\* A text with its dashes left out, character by character
RECURSIVE Undashed(_)
Undashed(s) ==
    IF s = <<>> THEN <<>>
    ELSE IF Head(s) = "-" THEN Undashed(Tail(s))
    ELSE <<Head(s)>> \o Undashed(Tail(s))

TextOr(v, default) == IF v = Absent THEN default ELSE Format(v)

IsCredit(tr) == tr.tipoOperacao = PyStr(<<"C">>)

\* The k-th block carries the k-th record's type, date, amount and memo
BlockCarries(ls, at, k) ==
    LET tr == Input[k]
        amt == BlockFieldAt(ls, at, k, "TRNAMT")
    IN /\ BlockFieldAt(ls, at, k, "TRNTYPE")
              = <<IF IsCredit(tr) THEN "CREDIT" ELSE "PAYMENT">>
       /\ BlockFieldAt(ls, at, k, "DTPOSTED") = Undashed(TextOr(tr.dataEntrada, <<>>))
       /\ amt \in {TextOr(tr.valor, <<"0">>), <<"-">> \o TextOr(tr.valor, <<"0">>)}
       /\ BlockFieldAt(ls, at, k, "MEMO") = TextOr(tr.descricao, <<>>)

OneBlockPerInput(doc) ==
    LET ls == LinesOf(doc)
        at == BlockStarts(ls)
    IN /\ CountTok(doc, "<STMTTRN>") = NumInput
       /\ CountTok(doc, "</STMTTRN>") = NumInput
       /\ Len(at) = NumInput
       /\ \A k \in 1..NumInput : BlockCarries(ls, at, k)

\* C1 as stated: for every transaction list, whatever its memo texts, the
\* document holds exactly one <STMTTRN> block per input transaction, and the
\* k-th block carries the k-th transaction's type, date, amount and memo.
C1_Original == Returned(ofx) => OneBlockPerInput(ofx.content)

\* C1 (amended): when no memo carries a line break or an angle bracket, the
\* document holds exactly one <STMTTRN> block per input transaction, in input
\* order, the k-th block carrying the k-th transaction's type, posted date,
\* amount and memo.
C1_BlockPerTransaction ==
    (Returned(ofx) /\ PlainMemos) => OneBlockPerInput(ofx.content)

\* Two different records, in a list of two, both written
C1_Witness ==
    /\ Returned(ofx) /\ PlainMemos
    /\ NumInput = 2
    /\ Input[1] # Input[2]
    /\ IsCredit(Input[1]) /\ ~IsCredit(Input[2])
    /\ OneBlockPerInput(ofx.content)

-----------------------------------------------------------------------------

\* C2 as stated: code "C" gives CREDIT and an amount with no leading minus
\* sign, every other code PAYMENT and an amount with a minus sign before it,
\* whatever valor is.
C2_Original ==
    Returned(ofx) =>
        LET ls == LinesOf(ofx.content)
            at == BlockStarts(ls)
        IN \A k \in 1..NumInput :
              LET amt == BlockFieldAt(ls, at, k, "TRNAMT")
              IN IF IsCredit(Input[k])
                 THEN /\ BlockFieldAt(ls, at, k, "TRNTYPE") = <<"CREDIT">>
                      /\ (amt = <<>> \/ amt[1] # "-")
                 ELSE /\ BlockFieldAt(ls, at, k, "TRNTYPE") = <<"PAYMENT">>
                      /\ amt # <<>> /\ amt[1] = "-"

\* C2 (amended): code "C" gives CREDIT and the amount exactly as valor is
\* written (0 when absent), with no sign added, so with a leading minus sign
\* only when valor itself is negative; every other code, an absent one
\* included, gives PAYMENT and a minus sign followed by the amount as valor
\* is written.
C2_TypeAndSign ==
    Returned(ofx) =>
        LET ls == LinesOf(ofx.content)
            at == BlockStarts(ls)
        IN \A k \in 1..NumInput :
              LET amt == BlockFieldAt(ls, at, k, "TRNAMT")
                  written == TextOr(Input[k].valor, <<"0">>)
              IN IF IsCredit(Input[k])
                 THEN /\ BlockFieldAt(ls, at, k, "TRNTYPE") = <<"CREDIT">>
                      /\ amt = written
                 ELSE /\ BlockFieldAt(ls, at, k, "TRNTYPE") = <<"PAYMENT">>
                      /\ amt = <<"-">> \o written

\* A credit of a negative amount beside a payment without valor
C2_Witness ==
    /\ Returned(ofx)
    /\ NumInput = 2
    /\ Input[1] = TrCreditNegative
    /\ Input[2] = TrEmpty
    /\ BlockField(LinesOf(ofx.content), 1, "TRNAMT") = <<"-", "5">>
    /\ BlockField(LinesOf(ofx.content), 2, "TRNAMT") = <<"-", "0">>

-----------------------------------------------------------------------------

DatesWritten(doc) ==
    /\ CountTok(doc, "<DTSTART>") = 1
    /\ CountTok(doc, "<DTEND>") = 1
    /\ ValuesOf(doc, "DTSTART") = <<Undashed(start_date)>>
    /\ ValuesOf(doc, "DTEND") = <<Undashed(end_date)>>

\* Number of ends of the range that are date d
RangeEnds(d) == Cardinality({i \in 1..2 : <<start_date, end_date>>[i] = d})

\* C3 as stated: exactly one <DTSTART> and one <DTEND> element, with the two
\* dates without their dashes, and these two texts nowhere in the document
\* but in these two elements, whatever the memos and the posted dates.
C3_Original ==
    Returned(ofx) =>
        /\ DatesWritten(ofx.content)
        /\ Occurrences(ofx.content, Undashed(start_date)) = RangeEnds(start_date)
        /\ Occurrences(ofx.content, Undashed(end_date)) = RangeEnds(end_date)

\* C3 (amended): when no memo carries a line break or an angle bracket, the
\* document holds exactly one <DTSTART> and one <DTEND> element, whose values
\* are start_date and end_date without their dashes; the same digits may
\* occur elsewhere (a posted date, the other end of the range).
C3_RangeDates == (Returned(ofx) /\ PlainMemos) => DatesWritten(ofx.content)

\* A document whose posted date repeats the start date
C3_Witness ==
    /\ Returned(ofx) /\ PlainMemos
    /\ NumInput >= 1
    /\ start_date # end_date
    /\ DatesWritten(ofx.content)
    /\ Occurrences(ofx.content, Undashed(start_date)) > RangeEnds(start_date)

-----------------------------------------------------------------------------

\* C4 as stated: generate_ofx returns a document for every value the
\* orchestrator can hand it (records with missing or degenerate fields, the
\* fallback of fetch_transactions, a balance with or without "disponivel")
\* and never raises.
C4_NeverRaises ==
    (ofx.called /\ transactions.t \in {"list", "dict"}) => ~ofx.raised

-----------------------------------------------------------------------------

EnvelopeTags ==
    {"SONRS", "BANKMSGSRSV1", "STMTTRNRS", "STMTRS", "BANKTRANLIST", "LEDGERBAL"}

\* The opening and the closing tag of each of them
EnvelopeToks ==
    {"<" \o t \o ">" : t \in EnvelopeTags} \cup {"</" \o t \o ">" : t \in EnvelopeTags}

LineIndex(ls, line) == CHOOSE i \in 1..Len(ls) : ls[i] = line

EnvelopeOnce(doc) ==
    LET ls == LinesOf(doc)
    IN /\ \A tok \in EnvelopeToks :
            /\ CountTok(doc, tok) = 1
            /\ \E i \in 1..Len(ls) : ls[i] = <<tok>>
       /\ CountTok(doc, "<BALAMT>") = 1
       /\ FieldOf(ls, LineIndex(ls, <<"<LEDGERBAL>">>),
                  LineIndex(ls, <<"</LEDGERBAL>">>), "BALAMT")
              = TextOr(saldo.disponivel, <<"N", "o", "n", "e">>)
       /\ NumInput = 0 =>
            LET from == LineIndex(ls, <<"<BANKTRANLIST>">>)
                to == LineIndex(ls, <<"</BANKTRANLIST>">>)
            IN /\ to = from + 3
               /\ IsElem(ls[from + 1], "DTSTART")
               /\ IsElem(ls[from + 2], "DTEND")
               /\ CountTok(doc, "<STMTTRN>") = 0

\* C6 as stated: for every transaction count and content, exactly one
\* sign-on block, one bank message envelope, one <BANKTRANLIST> and one
\* <LEDGERBAL> block whose <BALAMT> is the balance; with no transaction the
\* list block holds the two date lines and no <STMTTRN>.
C6_Original == Returned(ofx) => EnvelopeOnce(ofx.content)

\* C6 (amended): when no memo carries a line break or an angle bracket, the
\* document holds exactly one <SONRS>, <BANKMSGSRSV1>, <STMTTRNRS>, <STMTRS>,
\* <BANKTRANLIST> and <LEDGERBAL> block, whatever the number of
\* transactions; <BALAMT> is saldo.get("disponivel") as written; with no
\* transaction the list block holds the two date lines and no <STMTTRN>.
C6_EnvelopeOnce == (Returned(ofx) /\ PlainMemos) => EnvelopeOnce(ofx.content)

\* The envelope around an empty transaction list, with the balance in it
C6_WitnessEmpty ==
    /\ Returned(ofx)
    /\ transactions = PyList(<<>>)
    /\ saldo.disponivel = PyInt(500)
    /\ EnvelopeOnce(ofx.content)
    /\ ValuesOf(ofx.content, "BALAMT") = <<<<"5", "0", "0">>>>

-----------------------------------------------------------------------------

Unsigned(amt) == IF amt # <<>> /\ amt[1] = "-" THEN Tail(amt) ELSE amt

\* C7 as stated: a missing field degrades to a blank or a zero: <BALAMT> is
\* empty or 0 without "disponivel", the amount is 0 without valor,
\* <DTPOSTED> and <MEMO> are empty without dataEntrada and descricao.
C7_BlankOrZero ==
    Returned(ofx) =>
        LET ls == LinesOf(ofx.content)
        IN /\ saldo.disponivel = Absent =>
                 ValuesOf(ofx.content, "BALAMT")[1] \in {<<>>, <<"0">>}
           /\ \A k \in 1..NumInput :
                 /\ Input[k].valor = Absent =>
                        Unsigned(BlockField(ls, k, "TRNAMT")) = <<"0">>
                 /\ Input[k].dataEntrada = Absent =>
                        BlockField(ls, k, "DTPOSTED") = <<>>
                 /\ Input[k].descricao = Absent =>
                        BlockField(ls, k, "MEMO") = <<>>

-----------------------------------------------------------------------------

BlockTags ==
    {"OFX", "SIGNONMSGSRSV1", "SONRS", "STATUS", "FI", "BANKMSGSRSV1",
     "STMTTRNRS", "STMTRS", "BANKACCTFROM", "BANKTRANLIST", "STMTTRN",
     "LEDGERBAL"}

OpenToks == {"<" \o t \o ">" : t \in BlockTags}
CloseToks == {"</" \o t \o ">" : t \in BlockTags}
CloserOf == [o \in OpenToks |-> CHOOSE c \in CloseToks :
                \E t \in BlockTags : o = "<" \o t \o ">" /\ c = "</" \o t \o ">"]

Opens(line) == Len(line) = 1 /\ line[1] \in OpenToks
Closes(line) == Len(line) = 1 /\ line[1] \in CloseToks

\* Reading lines i.. with the stack of the closing tags awaited: every
\* closing tag closes the block opened last, <STMTTRN> opens inside
\* <BANKTRANLIST>, <LEDGERBAL> inside <STMTRS> once the list is closed, only
\* <OFX> opens on an empty stack, and the stack empties at the last line,
\* </OFX>.
RECURSIVE Nested(_, _, _, _)
Nested(ls, i, stack, listClosed) ==
    IF i > Len(ls) THEN stack = <<>> /\ ls[Len(ls)] = <<"</OFX>">>
    ELSE IF Opens(ls[i]) THEN
        LET o == ls[i][1]
        IN /\ (stack = <<>>) = (o = "<OFX>")
           /\ o = "<STMTTRN>" => stack[1] = "</BANKTRANLIST>"
           /\ o = "<LEDGERBAL>" => stack[1] = "</STMTRS>" /\ listClosed
           /\ Nested(ls, i + 1, <<CloserOf[o]>> \o stack, listClosed)
    ELSE IF Closes(ls[i]) THEN
        LET c == ls[i][1]
        IN /\ stack # <<>>
           /\ stack[1] = c
           /\ Len(stack) = 1 => i = Len(ls)
           /\ Nested(ls, i + 1, Tail(stack), listClosed \/ c = "</BANKTRANLIST>")
    ELSE Nested(ls, i + 1, stack, listClosed)

ProperlyNested(doc) == Nested(LinesOf(doc), 1, <<>>, FALSE)

NoLineBreaks ==
    \A k \in 1..NumInput :
        Input[k].descricao.t = "str" =>
            \A i \in 1..Len(Input[k].descricao.s) : Input[k].descricao.s[i] # NL

\* C8 as stated: for every number of transactions the block tags of the
\* document, read line by line with a stack, are properly nested and the
\* stack empties exactly at the last line, </OFX>.
C8_Original == Returned(ofx) => ProperlyNested(ofx.content)

\* C8 (amended): when no memo carries a line break, the block tags of the
\* document, read line by line with a stack, are properly nested: each
\* closing tag closes the block opened last, every <STMTTRN> block lies
\* inside <BANKTRANLIST>, <LEDGERBAL> inside <STMTRS> after </BANKTRANLIST>,
\* and the stack empties exactly at the last line, </OFX>.
C8_ProperlyNested ==
    (Returned(ofx) /\ NoLineBreaks) => ProperlyNested(ofx.content)

\* Two transaction blocks, one with tag text on its memo line
C8_Witness ==
    /\ Returned(ofx) /\ NoLineBreaks
    /\ NumInput = 2
    /\ Input[2] = TrTagMemo
    /\ ProperlyNested(ofx.content)

-----------------------------------------------------------------------------

\* C10 as stated: <DTSERVER> and <DTASOF> carry the same date, the system
\* date at generation time, even when the clock advances while the document
\* is built.
C10_SameDate ==
    Returned(ofx) =>
        LET ls == LinesOf(ofx.content)
        IN FieldOf(ls, 1, Len(ls), "DTSERVER") = FieldOf(ls, 1, Len(ls), "DTASOF")

-----------------------------------------------------------------------------

BothReturned == Returned(ofx) /\ Returned(ofx2)

\* Every reading of the clock in the two calls gave the same date
SameClockDate ==
    \A r \in {ofx, ofx2} : \A i \in 1..2 : r.clock[i] = ofx.clock[1]

SameButFitid(a, b) ==
    LET la == LinesOf(a)
        lb == LinesOf(b)
    IN /\ Len(la) = Len(lb)
       /\ \A i \in 1..Len(la) :
             \/ la[i] = lb[i]
             \/ IsElem(la[i], "FITID") /\ IsElem(lb[i], "FITID")

FitidsDistinct ==
    LET ids == ValuesOf(ofx.content, "FITID") \o ValuesOf(ofx2.content, "FITID")
    IN \A i, j \in 1..Len(ids) : i # j => ids[i] # ids[j]

-----------------------------------------------------------------------------

IsPrefix(s, t) == Len(s) <= Len(t) /\ \A i \in 1..Len(s) : s[i] = t[i]

\* C9: the stages of main run in the order token, fetch PDF, fetch
\* transactions, fetch balance, build OFX, save PDF, save OFX, upload PDF,
\* upload OFX, send email, each at most once and only after every earlier one
\* returned; so a file is written only after the token and the three fetches,
\* and the email is sent only after both files are saved and uploaded.
C9_FailFast ==
    /\ IsPrefix(attempted, Stages)
    /\ \A i \in 1..(Len(attempted) - 1) : attempted[i] \in succeeded
    /\ succeeded \subseteq {attempted[i] : i \in 1..Len(attempted)}
    /\ files # <<>> =>
          {"get_bank_token", "fetch_pdf", "fetch_transactions", "fetch_balance"}
              \subseteq succeeded
    /\ emailed # <<>> =>
          /\ {"save_pdf", "save_ofx", "upload_pdf", "upload_ofx"} \subseteq succeeded
          /\ {f.path : f \in {files[i] : i \in 1..Len(files)}} = {"pdf_path", "ofx_path"}
          /\ uploaded = <<"pdf_path", "ofx_path">>

\* A run in which every stage returned and the email was sent
C9_Witness ==
    /\ pc = "done"
    /\ attempted = Stages
    /\ emailed = <<"pdf_path", "ofx_path">>
    /\ Len(files) = 2

====
